---------------------------- MODULE Spec2Model ----------------------------
(***************************************************************************)
(* A model of the webscrapper repository:                                  *)
(*   - src/scraper.py: the recursive, thread-pool based scrape_website and *)
(*     the extractor extract_content_from_tags;                            *)
(*   - src/app.py: split_file_by_size and the /scrape request handler.     *)
(* Strings are sequences of one-character strings, so that substring       *)
(* tests, case folding and URL parsing are computed, not assumed.          *)
(***************************************************************************)
EXTENDS Integers, Sequences, FiniteSets, TLC

VARIABLES
    job,        \* scraper.py: the arguments of the top-level scrape_website call
    calls,      \* scraper.py: one record per invocation of scrape_website
    visited,    \* scraper.py: the visited set shared by all branches of a crawl
    splitIn,    \* app.py: the lines of the file given to split_file_by_size, and max_bytes
    splitOut,   \* app.py: the part files written by split_file_by_size
    splitPc,    \* app.py: position of the split_file_by_size call
    extractIn,  \* scraper.py: the elements of the soup given to extract_content_from_tags
    extractOut, \* scraper.py: the lines extract_content_from_tags returned
    extractPc,  \* scraper.py: position of the extract_content_from_tags call
    apiKey,     \* app.py: whether WEBSCRAPINGAPI_KEY is set in the environment
    reqs,       \* app.py: one record per /scrape request being handled
    files,      \* the files under temp_uploads: path -> lines
    dirs        \* the folders under temp_uploads

crawlVars == <<job, calls, visited>>
splitVars == <<splitIn, splitOut, splitPc>>
handlerVars == <<apiKey, reqs, files, dirs>>
extractVars == <<extractIn, extractOut, extractPc>>
vars == <<job, calls, visited, splitIn, splitOut, splitPc, extractIn, extractOut, extractPc,
          apiKey, reqs, files, dirs>>

\* what the steps of a crawl leave alone
notCrawl == <<splitIn, splitOut, splitPc, extractIn, extractOut, extractPc,
              apiKey, reqs, files, dirs>>

----------------------------------------------------------------------------
(* Strings                                                                 *)

Rep(c, n) == [i \in 1..n |-> c]

\* Python's `sub in s` on strings
IsInfix(sub, s) ==
    \E i \in 0..(Len(s) - Len(sub)) : SubSeq(s, i + 1, i + Len(sub)) = sub

StartsWith(s, p) == Len(s) >= Len(p) /\ SubSeq(s, 1, Len(p)) = p

\* index of the first element of s that is in set cs, 0 when there is none
FirstIn(s, cs) ==
    IF \E i \in 1..Len(s) : s[i] \in cs
    THEN CHOOSE i \in 1..Len(s) : s[i] \in cs /\ \A j \in 1..(i - 1) : s[j] \notin cs
    ELSE 0

UpperOf == [c \in {"a", "b", "c", "d", "e", "m", "n", "u"} |->
              CASE c = "a" -> "A" [] c = "b" -> "B" [] c = "c" -> "C"
                [] c = "d" -> "D" [] c = "e" -> "E" [] c = "m" -> "M"
                [] c = "n" -> "N" [] c = "u" -> "U"]

\* str.lower(), one character
LowerChar(c) ==
    IF \E l \in DOMAIN UpperOf : UpperOf[l] = c
    THEN CHOOSE l \in DOMAIN UpperOf : UpperOf[l] = c
    ELSE c

\* str.lower()
Lower(s) == [i \in 1..Len(s) |-> LowerChar(s[i])]

Whitespace == {" ", "\n", "\t"}

RECURSIVE SplitWords(_)
\* str.split(): the maximal runs of non-whitespace characters
SplitWords(s) ==
    IF s = <<>> THEN <<>>
    ELSE IF s[1] \in Whitespace THEN SplitWords(Tail(s))
    ELSE LET e == FirstIn(s, Whitespace)
             n == IF e = 0 THEN Len(s) ELSE e - 1
         IN  <<SubSeq(s, 1, n)>> \o SplitWords(SubSeq(s, n + 1, Len(s)))

RECURSIVE JoinWords(_)
\* ' '.join(words)
JoinWords(ws) ==
    IF ws = <<>> THEN <<>>
    ELSE IF Len(ws) = 1 THEN ws[1]
    ELSE ws[1] \o <<" ">> \o JoinWords(Tail(ws))

clean_text(text) == JoinWords(SplitWords(text))

----------------------------------------------------------------------------
(* URLs: urlparse and urljoin of urllib.parse, on the forms the sites use  *)

SchemeChars == {"h", "t", "p", "s", "m", "a", "i", "l", "o"}

\* urlparse(u).scheme: the characters before the first ':' when they are scheme characters
UrlScheme(u) ==
    LET i == FirstIn(u, {":"})
    IN  IF i > 1 /\ \A j \in 1..(i - 1) : u[j] \in SchemeChars
        THEN SubSeq(u, 1, i - 1) ELSE <<>>

UrlRest(u) ==
    IF UrlScheme(u) = <<>> THEN u ELSE SubSeq(u, Len(UrlScheme(u)) + 2, Len(u))

\* urlparse(u).netloc: what follows '//' up to the next '/', '?' or '#'
UrlNetloc(u) ==
    LET r == UrlRest(u)
    IN  IF StartsWith(r, <<"/", "/">>)
        THEN LET t == SubSeq(r, 3, Len(r))
                 e == FirstIn(t, {"/", "?", "#"})
             IN  IF e = 0 THEN t ELSE SubSeq(t, 1, e - 1)
        ELSE <<>>

\* "{0.scheme}://{0.netloc}".format(urlparse(url))
BaseUrl(u) == UrlScheme(u) \o <<":", "/", "/">> \o UrlNetloc(u)

\* urljoin(base, href) for a base without a path
urljoin(base, href) ==
    IF href = <<>> THEN base
    ELSE IF UrlScheme(href) # <<>> THEN href
    ELSE IF StartsWith(href, <<"/", "/">>) THEN UrlScheme(base) \o <<":">> \o href
    ELSE IF href[1] = "/" THEN base \o href
    ELSE base \o <<"/">> \o href


----------------------------------------------------------------------------
(* scraper.py: the extractor                                               *)

TARGET_TAGS == {"p", "h1", "h2", "h3", "h4", "h5", "h6", "span", "div", "strong",
                "b", "em", "i", "a", "li", "label", "blockquote", "pre", "code"}

MIN_TEXT_LEN == 30
MAX_TEXT_LEN == 1000

Denylist == { <<"c","o","o","k","i","e","s">>, <<"l","o","g","i","n">>,
              <<"t","e","r","m","s">>, <<"p","r","i","v","a","c","y">>,
              <<"a","c","c","e","p","t">>, <<"m","e","n","u">>,
              <<"s","u","b","s","c","r","i","b","e">>, <<"c","o","n","t","a","c","t">>,
              <<"b","o","o","k">>, <<"f","o","o","t","e","r">> }

AdmissibleFromMinLen(text, seen) ==
    /\ text # <<>>
    /\ Len(text) >= MIN_TEXT_LEN
    /\ Len(text) < MAX_TEXT_LEN
    /\ Lower(text) \notin seen
    /\ ~ \E bad \in Denylist : IsInfix(bad, Lower(text))

\* the condition of the if statement of extract_content_from_tags
Admissible(text, seen) ==
    /\ text # <<>>
    /\ Len(text) > MIN_TEXT_LEN
    /\ Len(text) < MAX_TEXT_LEN
    /\ Lower(text) \notin seen
    /\ ~ \E bad \in Denylist : IsInfix(bad, Lower(text))

RECURSIVE ExtractLoop(_, _, _)
\* the for loop of extract_content_from_tags over soup.find_all(TARGET_TAGS)
ExtractLoop(elements, seen, lines) ==
    IF elements = <<>> THEN lines
    ELSE LET text == clean_text(elements[1].text)
         IN  IF elements[1].tag \in TARGET_TAGS /\ Admissible(text, seen)
             THEN ExtractLoop(Tail(elements), seen \cup {Lower(text)}, Append(lines, text))
             ELSE ExtractLoop(Tail(elements), seen, lines)

extract_content_from_tags(soup) == ExtractLoop(soup, {}, <<>>)

\* for tag in soup(["script", "style", "noscript"]): tag.decompose()
Decompose(soup) == SelectSeq(soup, LAMBDA e : e.tag \notin {"script", "style", "noscript"})

RECURSIVE Hrefs(_)
\* a["href"] for a in soup.find_all("a", href=True)
Hrefs(soup) ==
    IF soup = <<>> THEN <<>>
    ELSE IF soup[1].tag = "a" /\ "href" \in DOMAIN soup[1]
         THEN <<soup[1].href>> \o Hrefs(Tail(soup))
         ELSE Hrefs(Tail(soup))

\* links[:max_links]
Cap(links, n) == SubSeq(links, 1, IF n < Len(links) THEN n ELSE Len(links))

\* the links of a fetched page: urljoin of every href, cut to max_links
PageLinks(url, soup, max_links) ==
    LET hs == Hrefs(soup)
    IN  Cap([i \in 1..Len(hs) |-> urljoin(BaseUrl(url), hs[i])], max_links)

\* the filter of the submit comprehension: base_url in link and link not in visited
Dispatchable(url, link, vis) == IsInfix(BaseUrl(url), link) /\ link \notin vis

----------------------------------------------------------------------------
(* The sites crawled: per URL the body the server returns.                 *)

UA  == <<"h",":","/","/","a">>                        \* http://a
UAx == <<"h",":","/","/","a","/","x">>                \* http://a/x
UAy == <<"h",":","/","/","a","/","y">>                \* http://a/y
UEx == <<"h",":","/","/","a",".","e","/","x">>        \* http://a.e/x (another host)
UBx == <<"h",":","/","/","b","/","x">>                \* http://b/x   (another host)
UBad == <<"a","/","x">>                               \* no scheme, no host
UNoHost   == <<"h",":","a">>                          \* a scheme, no host
UNoScheme == <<"/","/","a","/","x">>                  \* a host, no scheme

TxA  == <<"A","b"," "," ">> \o Rep("x", 29) \o <<"\n">>   \* cleans to "Ab xxx...", 32 chars
TxAl == <<"a","B"," ">> \o Rep("x", 29)                    \* equal to it after case folding
TxB  == <<"c","d">> \o Rep("y", 30)
TxShort == Rep("z", 30)                                    \* exactly MIN_TEXT_LEN
TxMenu  == <<"M","e","n","u"," ">> \o Rep("x", 30)        \* denylisted

P(text) == [tag |-> "p", text |-> text]
A(text, href) == [tag |-> "a", text |-> text, href |-> href]

\* a page that links twice to the same page, which links on and back
Site1 == [u \in {UA, UAx, UAy} |->
    CASE u = UA  -> << P(TxA), P(TxAl), P(TxShort),
                       A(<<"x">>, <<"/","x">>), A(<<"x">>, <<"/","x">>) >>
      [] u = UAx -> << P(TxAl), P(TxB), A(<<"y">>, <<"/","y">>), A(<<"h">>, <<>>) >>
      [] u = UAy -> << P(TxB), [tag |-> "script", text |-> TxB] >> ]

\* a page that links to two other hosts
Site2 == [u \in {UA, UAy, UEx, UBx} |->
    CASE u = UA  -> << P(TxA), A(<<"b">>, UBx), A(<<"e">>, UEx), A(<<"y">>, <<"y">>) >>
      [] u = UAy -> << P(TxB) >>
      [] u = UEx -> << P(TxMenu), P(TxB), A(<<"x">>, <<"/","x">>) >>
      [] u = UBx -> << P(TxB) >> ]

\* a page with one more link than the executor has workers
Site3 == [u \in {UA} |->
    << P(TxA), A(<<"1">>, <<"/","1">>), A(<<"2">>, <<"/","2">>), A(<<"3">>, <<"/","3">>),
               A(<<"4">>, <<"/","4">>), A(<<"5">>, <<"/","5">>), A(<<"6">>, <<"/","6">>) >> ]

\* a page that is linked from the seed and from another page of the seed,
\* and links on to a page that does not answer
Site4 == [u \in {UA, UAx, UAy} |->
    CASE u = UA  -> << P(TxA), A(<<"x">>, <<"/","x">>), A(<<"y">>, <<"/","y">>) >>
      [] u = UAx -> << P(TxB), A(<<"y">>, <<"/","y">>) >>
      [] u = UAy -> << P(TxB), A(<<"z">>, <<"/","z">>) >> ]

Sites == <<Site1, Site2, Site3, Site4>>

\* the seed URLs a crawl is started with
Seeds == {UA, UBad}

----------------------------------------------------------------------------
(* scraper.py: scrape_website                                              *)

MAX_WORKERS == 5

MaxDepth == 2
MaxLinks == 4
\* the number of invocations of scrape_website a crawl may make
CallSlots == 8

NoCall == 0

NewCall(url, depth, max_links, parent, pc) ==
    [url |-> url, depth |-> depth, max_links |-> max_links, parent |-> parent,
     pc |-> pc, fetch |-> "none", all_text |-> <<>>, links |-> <<>>, idx |-> 0,
     futures |-> <<>>, merged |-> <<>>, timedout |-> FALSE, result |-> <<>>,
     exc |-> "none"]

\* the crawls: every seed, depth and link cap on the small sites, and the
\* page of many links with a link cap that admits them all
Jobs ==
    [site : {1, 2}, seed : Seeds, max_depth : 0..MaxDepth, max_links : 0..MaxLinks]
        \cup [site : {3}, seed : {UA}, max_depth : {0}, max_links : {MAX_WORKERS + 1}]

\* the crawls of the site whose page is linked at two depths
SharedPageJobs == [site : {4}, seed : {UA}, max_depth : 1..MaxDepth, max_links : {MaxLinks}]

SharedPageInit ==
    /\ job \in SharedPageJobs
    /\ calls = <<NewCall(job.seed, 0, job.max_links, NoCall, "check")>>
    /\ visited = {}

CrawlInit ==
    /\ job \in Jobs
    /\ calls = <<NewCall(job.seed, 0, job.max_links, NoCall, "check")>>
    /\ visited = {}

CallIds == 1..Len(calls)
Done(c) == calls[c].pc \in {"returned", "raised"}
Range(s) == {s[i] : i \in 1..Len(s)}

\* what the server answers to a GET: a body, or the exception requests raises
FetchOutcomes(url) ==
    {"HTTPError", "ConnectionError", "Timeout"}
        \cup (IF url \in DOMAIN Sites[job.site] THEN {"ok"} ELSE {})

CatchesConnectionErrorOnly(exc) == exc = "ConnectionError"

\* except requests.exceptions.RequestException
IsRequestException(exc) == exc \in {"HTTPError", "ConnectionError", "Timeout"}

SkipDepthOffByOne(url, depth) == url \in visited \/ depth > job.max_depth + 1

\* if url in visited or depth > max_depth: return []
Skip(url, depth) == url \in visited \/ depth > job.max_depth

\* an exception leaving the try block: caught by the except clause, or raised to the caller
Leave(cs, c, exc) ==
    IF IsRequestException(exc)
    THEN [cs EXCEPT ![c].pc = "returned", ![c].result = <<>>]
    ELSE [cs EXCEPT ![c].pc = "raised", ![c].exc = exc]

\* the number of work items the workers of the executor of call p are running
Running(p) ==
    Cardinality({k \in Range(calls[p].futures) : calls[k].pc # "queued" /\ ~Done(k)})

WorkerAlwaysFree(p) == TRUE

\* one worker shared by the executors of all pages
WorkerOfSharedPoolFree(p) ==
    \A k \in CallIds : calls[k].parent = NoCall \/ calls[k].pc = "queued" \/ Done(k)

\* ThreadPoolExecutor(max_workers=5): a worker of the executor of call p is idle
WorkerFree(p) == Running(p) < MAX_WORKERS

\* a worker of the parent's ThreadPoolExecutor takes the next queued work item
Start(c) ==
    /\ c \in CallIds
    /\ calls[c].pc = "queued"
    /\ LET fs == calls[calls[c].parent].futures
       IN  \A i \in 1..Len(fs) : fs[i] < c => calls[fs[i]].pc # "queued"
    /\ WorkerFree(calls[c].parent)
    /\ calls' = [calls EXCEPT ![c].pc = "check"]
    /\ UNCHANGED <<job, visited, notCrawl>>

\* lines 42-48: URL validation, then the visited and depth test
Check(c) ==
    /\ c \in CallIds
    /\ calls[c].pc = "check"
    /\ calls' = IF UrlScheme(calls[c].url) = <<>> \/ UrlNetloc(calls[c].url) = <<>>
                THEN [calls EXCEPT ![c].pc = "returned", ![c].result = <<>>]
                ELSE IF Skip(calls[c].url, calls[c].depth)
                THEN [calls EXCEPT ![c].pc = "returned", ![c].result = <<>>]
                ELSE [calls EXCEPT ![c].pc = "mark"]
    /\ UNCHANGED <<job, visited, notCrawl>>

AddNothing(vis, url) == vis

\* visited.add(url)
Add(vis, url) == vis \cup {url}

\* line 50: visited.add(url)
Mark(c) ==
    /\ c \in CallIds
    /\ calls[c].pc = "mark"
    /\ visited' = Add(visited, calls[c].url)
    /\ calls' = [calls EXCEPT ![c].pc = "get"]
    /\ UNCHANGED <<job, notCrawl>>

\* line 57: requests.get is issued
Get(c) ==
    /\ c \in CallIds
    /\ calls[c].pc = "get"
    /\ calls' = [calls EXCEPT ![c].pc = "inflight", ![c].fetch = "inflight"]
    /\ UNCHANGED <<job, visited, notCrawl>>

\* lines 57-68: the response arrives; the page is parsed, or the exception leaves the try
Respond(c) ==
    /\ c \in CallIds
    /\ calls[c].pc = "inflight"
    /\ \E out \in FetchOutcomes(calls[c].url) :
         IF out = "ok"
         THEN LET soup == Decompose(Sites[job.site][calls[c].url])
                  links == PageLinks(calls[c].url, soup, calls[c].max_links)
              IN  calls' = [calls EXCEPT ![c].fetch = "ok",
                                         ![c].all_text = extract_content_from_tags(soup),
                                         ![c].links = links,
                                         ![c].pc = IF links = <<>> THEN "join" ELSE "submit"]
         ELSE calls' = Leave([calls EXCEPT ![c].fetch = "error"], c, out)
    /\ UNCHANGED <<job, visited, notCrawl>>

ChildCapUnhalved(max_links) == max_links

\* line 72: max_links // 2, the link cap a child is called with
ChildCap(max_links) == max_links \div 2

\* lines 71-74: one iteration of the comprehension that submits the children
Submit(c) ==
    /\ c \in CallIds
    /\ calls[c].pc = "submit"
    /\ Len(calls) < CallSlots
    /\ LET i == calls[c].idx + 1
           link == calls[c].links[i]
           pc2 == IF i = Len(calls[c].links) THEN "join" ELSE "submit"
           k == Len(calls) + 1
       IN  calls' =
             IF Dispatchable(calls[c].url, link, visited)
             THEN Append([calls EXCEPT ![c].idx = i, ![c].pc = pc2,
                                       ![c].futures = Append(@, k)],
                         NewCall(link, calls[c].depth + 1, ChildCap(calls[c].max_links), c, "queued"))
             ELSE [calls EXCEPT ![c].idx = i, ![c].pc = pc2]
    /\ UNCHANGED <<job, visited, notCrawl>>

Unmerged(c) == Range(calls[c].futures) \ Range(calls[c].merged)

\* lines 76-81: as_completed yields a finished future; its result is appended,
\* its exception is logged
Merge(c, k) ==
    /\ c \in CallIds
    /\ calls[c].pc = "join"
    /\ k \in Unmerged(c)
    /\ Done(k)
    /\ calls' = [calls EXCEPT ![c].merged = Append(@, k),
                              ![c].all_text = IF calls[k].pc = "returned"
                                              THEN @ \o calls[k].result ELSE @]
    /\ UNCHANGED <<job, visited, notCrawl>>

\* line 76: as_completed(..., timeout=30) raises TimeoutError while futures are pending
JoinTimeout(c) ==
    /\ c \in CallIds
    /\ calls[c].pc = "join"
    /\ Unmerged(c) # {}
    /\ calls' = [calls EXCEPT ![c].pc = "unwind", ![c].timedout = TRUE]
    /\ UNCHANGED <<job, visited, notCrawl>>

\* line 70: leaving the with block with the TimeoutError: shutdown(wait=True) waits
\* for every child, then the exception reaches the except clause of line 85
Unwind(c) ==
    /\ c \in CallIds
    /\ calls[c].pc = "unwind"
    /\ \A k \in Range(calls[c].futures) : Done(k)
    /\ calls' = Leave(calls, c, "TimeoutError")
    /\ UNCHANGED <<job, visited, notCrawl>>

\* line 83: return all_text
Return(c) ==
    /\ c \in CallIds
    /\ calls[c].pc = "join"
    /\ Unmerged(c) = {}
    /\ calls' = [calls EXCEPT ![c].pc = "returned", ![c].result = calls[c].all_text]
    /\ UNCHANGED <<job, visited, notCrawl>>

CrawlNext ==
    \E c \in 1..CallSlots :
        \/ Start(c)
        \/ Check(c)
        \/ Mark(c)
        \/ Get(c)
        \/ Respond(c)
        \/ Submit(c)
        \/ \E k \in 1..CallSlots : Merge(c, k)
        \/ JoinTimeout(c)
        \/ Unwind(c)
        \/ Return(c)

\* the steps of invocation c that the threads take: all but the expiry of
\* the timeout of as_completed
Step(c) ==
    \/ Start(c)
    \/ Check(c)
    \/ Mark(c)
    \/ Get(c)
    \/ Respond(c)
    \/ Submit(c)
    \/ \E k \in 1..CallSlots : Merge(c, k)
    \/ Unwind(c)
    \/ Return(c)

\* every thread that can take a step eventually takes one, and every GET is
\* eventually answered
CrawlFairness == \A c \in 1..CallSlots : WF_vars(Step(c))

CrawlIdle == job = [site |-> 0] /\ calls = <<>> /\ visited = {}

----------------------------------------------------------------------------
(* Properties of the crawl                                                 *)

Fetched(c) == calls[c].fetch # "none"

\* the number of GETs issued for url in the calls cs
GetCount(cs, url) ==
    Cardinality({c \in 1..Len(cs) : cs[c].url = url /\ cs[c].fetch # "none"})

\* C1: within one crawl no URL is fetched (GET issued) more than once, in
\* every interleaving of the concurrently running branches.
C1_NoUrlFetchedTwice ==
    \A c, d \in CallIds :
        Fetched(c) /\ Fetched(d) /\ calls[c].url = calls[d].url => c = d

\* C2: every fetched URL has the scheme+host authority of the page its link
\* was found on; a link of another authority is never recursed into.
C2_SameAuthorityAsParent ==
    \A c \in CallIds :
        Fetched(c) /\ calls[c].parent # NoCall
            => /\ UrlScheme(calls[c].url) = UrlScheme(calls[calls[c].parent].url)
               /\ UrlNetloc(calls[c].url) = UrlNetloc(calls[calls[c].parent].url)

\* C3: a GET is only issued for a URL reached at depth <= max_depth; with
\* max_depth = 0 the seed is the only URL fetched, whatever it links to.
C3_FetchOnlyWithinMaxDepth ==
    \A c \in CallIds :
        Fetched(c) => /\ calls[c].depth <= job.max_depth
                      /\ job.max_depth = 0 => (c = 1 /\ calls[c].url = job.seed)

\* the seed page linked to other pages, max_depth is 0 and the crawl is over
C3_Witness ==
    /\ job.max_depth = 0
    /\ Len(calls) > 1
    /\ \A c \in CallIds : Done(c)
    /\ Fetched(1)

\* C4: the text a crawl returns holds no two fragments that are equal after
\* case folding, whichever pages they were extracted from.
C4_NoCaseFoldedDuplicates ==
    calls[1].pc = "returned" =>
        \A i, j \in 1..Len(calls[1].result) :
            Lower(calls[1].result[i]) = Lower(calls[1].result[j]) => i = j

RECURSIVE Contributions(_, _)
\* the results of the children ks, in that order, as Merge appends them
Contributions(cs, ks) ==
    IF ks = <<>> THEN <<>>
    ELSE (IF cs[ks[1]].pc = "returned" THEN cs[ks[1]].result ELSE <<>>)
             \o Contributions(cs, Tail(ks))

\* per site and URL, the fragments the extractor admits from that page
SiteFragments ==
    [s \in 1..Len(Sites) |->
        [u \in DOMAIN Sites[s] |-> extract_content_from_tags(Decompose(Sites[s][u]))]]

\* the fragments of the page of call c itself
OwnFragments(c) == SiteFragments[job.site][calls[c].url]

\* C5: when the join timeout expires at a page with children outstanding, the
\* call for that page still returns normally, with the page's own fragments
\* and those of the children merged in time; no exception leaves the call.
C5_JoinTimeoutReturnsNormally ==
    \A c \in CallIds :
        calls[c].timedout /\ Done(c)
            => /\ calls[c].pc = "returned"
               /\ calls[c].result
                     = OwnFragments(c) \o Contributions(calls, calls[c].merged)

\* C6: a fetch error makes the branch return [] with no child dispatched and
\* never raises; a page keeps its own fragments and those of its other
\* children; the only exception a call ever raises is the join TimeoutError.
C6_FetchErrorIsLocal ==
    \A c \in CallIds :
        /\ calls[c].fetch = "error"
              => /\ calls[c].pc = "returned"
                 /\ calls[c].result = <<>>
                 /\ calls[c].futures = <<>>
        /\ calls[c].pc = "raised" => calls[c].fetch = "ok" /\ calls[c].timedout
        /\ calls[c].fetch = "ok" /\ calls[c].pc # "raised"
              => calls[c].all_text
                     = OwnFragments(c) \o Contributions(calls, calls[c].merged)
        /\ calls[c].pc = "returned" /\ calls[c].fetch = "ok"
              => calls[c].result = calls[c].all_text

\* the seed returned its own fragments and those of one child, while the
\* fetch of another child of it failed
C6_Witness ==
    /\ calls[1].pc = "returned"
    /\ \E k \in Range(calls[1].merged) : calls[k].fetch = "error"
    /\ \E k \in Range(calls[1].merged) : calls[k].result # <<>>
    /\ Len(calls[1].result) > Len(OwnFragments(1))

\* C7: a GET is never retried: once a GET for a URL has failed, no further
\* GET for that URL is issued in the same crawl.
C7_NoGetAfterFailure ==
    [][\A c \in CallIds :
          calls[c].fetch = "error"
              => GetCount(calls', calls[c].url) = GetCount(calls, calls[c].url)]_vars

----------------------------------------------------------------------------
(* app.py: split_file_by_size                                              *)
(* A line of text is kept run-length encoded: a sequence of runs           *)
(* [ch, n], n times the character ch.                                      *)

MAX_FILE_SIZE == 900000

\* the number of bytes of the UTF-8 encoding of one character
Utf8Width(ch) == CASE ch = "é" -> 2 [] ch = "€" -> 3 [] OTHER -> 1

RECURSIVE CharLen(_)
\* len(line)
CharLen(line) == IF line = <<>> THEN 0 ELSE line[1].n + CharLen(Tail(line))

RECURSIVE Utf8Len(_)
\* len(line.encode("utf-8"))
Utf8Len(line) ==
    IF line = <<>> THEN 0 ELSE line[1].n * Utf8Width(line[1].ch) + Utf8Len(Tail(line))

Run(ch, n) == [ch |-> ch, n |-> n]
Newline == Run("\n", 1)

PartIsFullByChars(current_size, line, max_bytes) == current_size + CharLen(line) > max_bytes

\* line 286: if current_size + len(encoded_line) > max_bytes
PartIsFull(current_size, line, max_bytes) == current_size + Utf8Len(line) > max_bytes

LastPartForgotten(part_files, current_lines) == part_files

\* lines 298-302: the last part is written when it holds a line
SaveLastPart(part_files, current_lines) ==
    IF current_lines # <<>> THEN Append(part_files, current_lines) ELSE part_files

SizeNotReset(current_size, line) == current_size + Utf8Len(line)

\* lines 293-295: current_size = 0, then current_size += len(encoded_line)
SizeAfterFlush(current_size, line) == 0 + Utf8Len(line)

RECURSIVE SplitLoop(_, _, _, _, _)
\* lines 284-295: the loop over the lines of the file. part_files holds the
\* lines written to data1.txt, data2.txt, ... in that order
SplitLoop(lines, max_bytes, part_files, current_lines, current_size) ==
    IF lines = <<>> THEN SaveLastPart(part_files, current_lines)
    ELSE IF PartIsFull(current_size, lines[1], max_bytes)
         THEN SplitLoop(Tail(lines), max_bytes, Append(part_files, current_lines),
                        <<lines[1]>>, SizeAfterFlush(current_size, lines[1]))
         ELSE SplitLoop(Tail(lines), max_bytes, part_files,
                        Append(current_lines, lines[1]), current_size + Utf8Len(lines[1]))

split_file_by_size(lines, max_bytes) == SplitLoop(lines, max_bytes, <<>>, <<>>, 0)

RECURSIVE FileSize(_)
\* os.path.getsize of a part file
FileSize(part) ==
    IF part = <<>> THEN 0 ELSE Utf8Len(part[1]) + FileSize(Tail(part))

\* the lines a file may hold, each ending in a newline
FileLines ==
    { <<Run("a", 299999), Newline>>,                      \* 300,000 bytes
      <<Run("a", 1), Run("é", 200000), Newline>>,         \* 400,002 bytes, 200,002 characters
      <<Run("a", 899999), Newline>>,                      \* MAX_FILE_SIZE bytes exactly
      <<Run("a", 900000), Newline>>,                      \* one byte too many
      <<Run("€", 300000), Newline>> }                     \* 900,001 bytes, 300,001 characters

\* the values of max_bytes
Ceilings == {MAX_FILE_SIZE, 700002, 1}

MaxLines == 4

SeqsUpTo(S, n) == UNION {[1..k -> S] : k \in 0..n}

SplitIdle == splitIn = <<>> /\ splitOut = <<>> /\ splitPc = "idle"

\* the sizes in bytes of the lines of the files of 2,000,000 bytes
LineSizes == {200000, 300000, 500000, 1000000, 2000000}

MaxScenarioLines == 8

RECURSIVE Compositions(_, _)
\* the sequences of at most n line sizes that add up to total
Compositions(total, n) ==
    IF total = 0 THEN {<<>>}
    ELSE IF n = 0 THEN {}
    ELSE UNION { {<<size>> \o rest : rest \in Compositions(total - size, n - 1)} :
                 size \in {x \in LineSizes : x <= total} }

\* a line of that many bytes, its newline included
LineOfSize(size) == <<Run("a", size - 1), Newline>>

\* the files of 2,000,000 bytes
ScenarioFiles ==
    { [i \in 1..Len(sizes) |-> LineOfSize(sizes[i])] :
        sizes \in Compositions(2000000, MaxScenarioLines) }

SplitInit ==
    /\ splitIn \in [lines : SeqsUpTo(FileLines, MaxLines), max_bytes : Ceilings]
                   \cup [lines : ScenarioFiles, max_bytes : {MAX_FILE_SIZE}]
    /\ splitOut = <<>>
    /\ splitPc = "ready"

\* the call split_file_by_size(original_file_path, output_dir, max_bytes)
Split ==
    /\ splitPc = "ready"
    /\ splitOut' = split_file_by_size(splitIn.lines, splitIn.max_bytes)
    /\ splitPc' = "done"
    /\ UNCHANGED <<splitIn, crawlVars, handlerVars, extractVars>>

----------------------------------------------------------------------------
(* scraper.py: a call of extract_content_from_tags on a parsed document    *)

Tx31   == Rep("v", 31)                     \* one character more than MIN_TEXT_LEN
Tx999  == Rep("w", 999)                    \* one character less than MAX_TEXT_LEN
Tx1000 == Rep("w", 1000)                   \* exactly MAX_TEXT_LEN

\* the elements the documents are made of
ElementKinds ==
    { P(TxA), P(TxAl), P(TxShort), P(Tx31), P(Tx999), P(Tx1000), P(TxMenu),
      [tag |-> "td", text |-> TxB] }

MaxElements == 3

ExtractIdle == extractIn = <<>> /\ extractOut = <<>> /\ extractPc = "idle"

ExtractInit ==
    /\ extractIn \in SeqsUpTo(ElementKinds, MaxElements)
    /\ extractOut = <<>>
    /\ extractPc = "ready"

\* the call extract_content_from_tags(soup)
Extract ==
    /\ extractPc = "ready"
    /\ extractOut' = extract_content_from_tags(extractIn)
    /\ extractPc' = "done"
    /\ UNCHANGED <<extractIn, crawlVars, splitVars, handlerVars>>

----------------------------------------------------------------------------
(* app.py: scrape_website, scrape_website_robust and the /scrape handler   *)

\* the parameter sets scrape_website_robust tries, in order
ParameterSets == << {"api_key", "url"},
                    {"api_key", "url", "render_js"},
                    {"api_key", "url", "render_js", "timeout"},
                    {"api_key", "url", "render_js", "timeout", "country"} >>

Small == <<Run("a", 299999)>>          \* with its newline 300,000 bytes
Huge  == <<Run("a", 900000)>>          \* with its newline 900,001 bytes

\* the lines that lines 191-240 of scrape_website make of the body of a page
PageLines == { <<>>, <<Small>>, <<Small, Small, Small, Small>>, <<Small, Huge>>, <<Huge>>,
               <<Small, Small, Small, Huge>> }

\* what WebScrapingAPI answers to a GET
ApiAnswers == {"200", "non200", "RequestException"}

\* what the upload endpoint answers to a POST: a status, or the request fails
UploadAnswers == {"200", "503", "RequestException"}

\* the status recorded for an answer: res.status_code, or 500 for a failed request
RecordedStatus(answer) ==
    CASE answer = "200" -> 200 [] answer = "503" -> 503 [] OTHER -> 500

\* str(n) for the numbers the model needs
Digits == <<"1", "2", "3", "4", "5", "6", "7", "8", "9">>

NoValue == <<>>
DefaultLinkName == <<"U","n","k","n","o","w","n"," ","W","e","b","s","i","t","e">>
SomeLinkName == <<"M","y"," ","S","i","t","e">>

\* the JSON bodies of the requests
RequestBodies ==
    [url : {UA, UBad, UNoHost, UNoScheme, NoValue}, orgId : {<<"o">>, NoValue},
     linkId : {<<"L">>, NoValue}, linkName : {DefaultLinkName, SomeLinkName}]

\* the requests the server may be handling at once
RequestIds == {1, 2}

NewRequest(data) ==
    [data |-> data, pc |-> "start", lines |-> <<>>, gets |-> 0, answers |-> <<>>,
     tries |-> 0,
     folder |-> <<>>, original |-> <<>>, part_files |-> <<>>, idx |-> 0,
     upload_responses |-> <<>>, posts |-> <<>>, status |-> 0]

HandlerInit ==
    /\ apiKey \in BOOLEAN
    /\ reqs \in [{1} -> {NewRequest(d) : d \in RequestBodies}]
    /\ files = <<>>
    /\ dirs = {}

\* the JSON bodies of two valid requests for the same url
PairBodies ==
    [url : {UA}, orgId : {<<"o">>}, linkId : {<<"L">>, NoValue},
     linkName : {DefaultLinkName, SomeLinkName}]

\* two requests handled at the same time by the threads of the server
PairInit ==
    /\ apiKey = TRUE
    /\ reqs \in [RequestIds -> {NewRequest(d) : d \in PairBodies}]
    /\ files = <<>>
    /\ dirs = {}

HandlerIdle == apiKey = FALSE /\ reqs = <<>> /\ files = <<>> /\ dirs = {}

\* return jsonify(...), status
Reply(r, status) == [reqs EXCEPT ![r].pc = "done", ![r].status = status]

ValidUrlEither(url) == UrlScheme(url) # <<>> \/ UrlNetloc(url) # <<>>

\* line 328: all([parsed_url.scheme, parsed_url.netloc])
ValidUrl(url) == UrlScheme(url) # <<>> /\ UrlNetloc(url) # <<>>

\* lines 311-329: the API key and the validation of the request
HStart(r) ==
    /\ r \in DOMAIN reqs
    /\ reqs[r].pc = "start"
    /\ reqs' = IF ~apiKey THEN Reply(r, 500)
               ELSE IF reqs[r].data.url = NoValue \/ reqs[r].data.orgId = NoValue
               THEN Reply(r, 400)
               ELSE IF ~ValidUrl(reqs[r].data.url)
               THEN Reply(r, 400)
               ELSE [reqs EXCEPT ![r].pc = "scrape"]
    /\ UNCHANGED <<apiKey, files, dirs, crawlVars, splitVars, extractVars>>

\* lines 183-247 of scrape_website: the first GET and what follows it
HScrape(r) ==
    /\ r \in DOMAIN reqs
    /\ reqs[r].pc = "scrape"
    /\ \E answer \in ApiAnswers : \E body \in PageLines :
         reqs' = CASE answer = "200" ->
                      [reqs EXCEPT ![r].gets = @ + 1, ![r].answers = Append(@, answer),
                                   ![r].lines = Cap(body, 1000), ![r].pc = "scraped"]
                   [] answer = "non200" ->
                      [reqs EXCEPT ![r].gets = @ + 1, ![r].answers = Append(@, answer),
                                   ![r].pc = "robust"]
                   [] OTHER ->
                      [reqs EXCEPT ![r].gets = @ + 1, ![r].answers = Append(@, answer),
                                   ![r].lines = <<>>, ![r].pc = "scraped"]
    /\ UNCHANGED <<apiKey, files, dirs, crawlVars, splitVars, extractVars>>

\* lines 74-98 of scrape_website_robust: one iteration of the loop over the
\* parameter sets, and the test after the loop
HRobust(r) ==
    /\ r \in DOMAIN reqs
    /\ reqs[r].pc = "robust"
    /\ \E answer \in ApiAnswers : \E body \in PageLines :
         LET i == reqs[r].tries + 1
         IN  reqs' = IF answer = "200"
                     THEN [reqs EXCEPT ![r].gets = @ + 1, ![r].answers = Append(@, answer),
                                       ![r].tries = i,
                                       ![r].lines = Cap(body, 1000), ![r].pc = "scraped"]
                     ELSE IF i = Len(ParameterSets)
                     THEN [reqs EXCEPT ![r].gets = @ + 1, ![r].answers = Append(@, answer),
                                       ![r].tries = i,
                                       ![r].lines = <<>>, ![r].pc = "scraped"]
                     ELSE [reqs EXCEPT ![r].gets = @ + 1, ![r].answers = Append(@, answer),
                                       ![r].tries = i]
    /\ UNCHANGED <<apiKey, files, dirs, crawlVars, splitVars, extractVars>>

\* link_name.replace(' ', '_')
Underscored(name) == [i \in 1..Len(name) |-> IF name[i] = " " THEN "_" ELSE name[i]]

\* lines 354-355: the name of the file the lines are saved to
OriginalName(data) ==
    IF data.linkName # DefaultLinkName
    THEN Underscored(data.linkName) \o <<"_","c","o","n","t","e","n","t",".","t","x","t">>
    ELSE <<"s","c","r","a","p","e","d","_","c","o","n","t","e","n","t",".","t","x","t">>

\* line 349: request_id = link_id if link_id else str(uuid.uuid4())
RequestId(r, data) == IF data.linkId # NoValue THEN data.linkId ELSE <<"u","u","i","d", Digits[r]>>

Path(folder, name) == <<folder, name>>

\* f"data{part_number}.txt"
PartName(n) == <<"d","a","t","a", Digits[n], ".","t","x","t">>

NoContentNever(lines) == FALSE

\* line 337: if not lines
NoContent(lines) == lines = <<>>

\* lines 337-351: no lines, or the folder of the request is made
HFolder(r) ==
    /\ r \in DOMAIN reqs
    /\ reqs[r].pc = "scraped"
    /\ IF NoContent(reqs[r].lines)
       THEN /\ reqs' = Reply(r, 204)
            /\ UNCHANGED dirs
       ELSE /\ reqs' = [reqs EXCEPT ![r].folder = RequestId(r, reqs[r].data),
                                    ![r].pc = "save"]
            /\ dirs' = dirs \cup {RequestId(r, reqs[r].data)}
    /\ UNCHANGED <<apiKey, files, crawlVars, splitVars, extractVars>>

\* lines 262-267 of save_content_to_txt: a newline is added to a line that has none
WithNewline(line) ==
    IF line # <<>> /\ line[Len(line)].ch = "\n" THEN line ELSE Append(line, Newline)

\* f[p] set to v, p added to the domain of f when it is not in it
Put(f, p, v) == [q \in DOMAIN f \cup {p} |-> IF q = p THEN v ELSE f[q]]
\* f without p
Drop(f, p) == [q \in DOMAIN f \ {p} |-> f[q]]

\* lines 354-356: save_content_to_txt(lines, filename=original_file)
HSave(r) ==
    /\ r \in DOMAIN reqs
    /\ reqs[r].pc = "save"
    /\ LET name == OriginalName(reqs[r].data)
       IN  /\ files' = Put(files, Path(reqs[r].folder, name),
                           [i \in 1..Len(reqs[r].lines) |-> WithNewline(reqs[r].lines[i])])
           /\ reqs' = [reqs EXCEPT ![r].original = name, ![r].pc = "split"]
    /\ UNCHANGED <<apiKey, dirs, crawlVars, splitVars, extractVars>>

RECURSIVE WriteParts(_, _, _, _)
\* the part files split_file_by_size writes: data1.txt, data2.txt, ...
WriteParts(f, folder, parts, n) ==
    IF parts = <<>> THEN f
    ELSE WriteParts(Put(f, Path(folder, PartName(n)), parts[1]), folder, Tail(parts), n + 1)

\* line 358: part_files = split_file_by_size(original_file, output_folder)
HSplit(r) ==
    /\ r \in DOMAIN reqs
    /\ reqs[r].pc = "split"
    /\ LET p == Path(reqs[r].folder, reqs[r].original)
           parts == split_file_by_size(files[p], MAX_FILE_SIZE)
       IN  IF p \notin DOMAIN files
           THEN \* open raises FileNotFoundError: the except clause of line 439
                reqs' = Reply(r, 500) /\ UNCHANGED files
           ELSE /\ files' = WriteParts(files, reqs[r].folder, parts, 1)
                /\ reqs' = [reqs EXCEPT
                              ![r].part_files = [i \in 1..Len(parts) |-> PartName(i)],
                              ![r].pc = "relay"]
    /\ UNCHANGED <<apiKey, dirs, crawlVars, splitVars, extractVars>>

TooLargeInclusive(file_size) == file_size >= MAX_FILE_SIZE

\* line 371: if file_size > MAX_FILE_SIZE
TooLarge(file_size) == file_size > MAX_FILE_SIZE

OutcomeOfAnswerOnly(name, answer) ==
    IF answer = "RequestException" THEN <<>>
    ELSE <<[file |-> name, status |-> RecordedStatus(answer)]>>

\* lines 386-401: what upload_responses.append adds for a POST, answered or failed
Outcome(name, answer) == <<[file |-> name, status |-> RecordedStatus(answer)]>>

\* line 417: [r for r in upload_responses if r["status"] in [200, 201, 202]]
SuccessfulUploads(responses) == SelectSeq(responses, LAMBDA x : x.status \in {200, 201, 202})

\* lines 369-401: one part file of the relay loop: it is refused as too
\* large, or posted and the answer recorded
HUpload(r) ==
    /\ r \in DOMAIN reqs
    /\ reqs[r].pc = "relay"
    /\ reqs[r].idx < Len(reqs[r].part_files)
    /\ LET name == reqs[r].part_files[reqs[r].idx + 1]
           file_size == FileSize(files[Path(reqs[r].folder, name)])
       IN  IF Path(reqs[r].folder, name) \notin DOMAIN files
           THEN \* os.path.getsize raises FileNotFoundError: the except clause of line 439
                reqs' = Reply(r, 500)
           ELSE IF TooLarge(file_size)
           THEN reqs' = [reqs EXCEPT
                           ![r].upload_responses = Append(@, [file |-> name, status |-> 400]),
                           ![r].idx = @ + 1]
           ELSE \E answer \in UploadAnswers :
                  reqs' = [reqs EXCEPT
                             ![r].posts = Append(@, name),
                             ![r].upload_responses = @ \o Outcome(name, answer),
                             ![r].pc = "remove"]
    /\ UNCHANGED <<apiKey, files, dirs, crawlVars, splitVars, extractVars>>

\* lines 403-407: os.remove(file_path) after the upload attempt
HRemovePart(r) ==
    /\ r \in DOMAIN reqs
    /\ reqs[r].pc = "remove"
    /\ LET p == Path(reqs[r].folder, reqs[r].part_files[reqs[r].idx + 1])
       IN  files' = IF p \in DOMAIN files THEN Drop(files, p) ELSE files
    /\ reqs' = [reqs EXCEPT ![r].idx = @ + 1, ![r].pc = "relay"]
    /\ UNCHANGED <<apiKey, dirs, crawlVars, splitVars, extractVars>>

FilesIn(f, folder) == {p \in DOMAIN f : p[1] = folder}

\* lines 409-437: os.remove(original_file), os.rmdir(output_folder), which
\* fails on a folder that is not empty, and the response
HCleanup(r) ==
    /\ r \in DOMAIN reqs
    /\ reqs[r].pc = "relay"
    /\ reqs[r].idx = Len(reqs[r].part_files)
    /\ LET p == Path(reqs[r].folder, reqs[r].original)
           removed == IF p \in DOMAIN files THEN Drop(files, p) ELSE files
       IN  /\ files' = removed
           /\ dirs' = IF p \in DOMAIN files /\ FilesIn(removed, reqs[r].folder) = {}
                      THEN dirs \ {reqs[r].folder} ELSE dirs
    /\ reqs' = Reply(r, 200)
    /\ UNCHANGED <<apiKey, crawlVars, splitVars, extractVars>>

HandlerNext ==
    \E r \in RequestIds :
        \/ HStart(r)
        \/ HScrape(r)
        \/ HRobust(r)
        \/ HFolder(r)
        \/ HSave(r)
        \/ HSplit(r)
        \/ HUpload(r)
        \/ HRemovePart(r)
        \/ HCleanup(r)

----------------------------------------------------------------------------
(* Specifications                                                          *)

\* one crawl of scraper.py
Init == CrawlInit /\ SplitIdle /\ ExtractIdle /\ HandlerIdle
Next == CrawlNext
Spec == Init /\ [][Next]_vars

\* one crawl of scraper.py under fair scheduling of its threads: the crawls
\* of the two small sites with a link cap of at most 2, which lets a page
\* dispatch two branches and each of them one more
FairInit == Init /\ job.site \in {1, 2} /\ job.seed = UA /\ job.max_links <= 2
FairSpec == FairInit /\ [][Next]_vars /\ CrawlFairness

\* one call of split_file_by_size
SplitSpecInit == CrawlIdle /\ SplitInit /\ ExtractIdle /\ HandlerIdle
SplitNext == Split
SplitSpec == SplitSpecInit /\ [][SplitNext]_vars

\* one /scrape request
ScrapeSpecInit == CrawlIdle /\ SplitIdle /\ ExtractIdle /\ HandlerInit
ScrapeSpec == ScrapeSpecInit /\ [][HandlerNext]_vars

\* one crawl of the site whose page is linked at two depths
SharedPageSpecInit == SharedPageInit /\ SplitIdle /\ ExtractIdle /\ HandlerIdle
SharedPageSpec == SharedPageSpecInit /\ [][Next]_vars

\* two /scrape requests at the same time
PairSpecInit == CrawlIdle /\ SplitIdle /\ ExtractIdle /\ PairInit
\* the runs in which the API is asked at most twice per request and the page
\* gives one line
PairEnv ==
    \A r \in DOMAIN reqs :
        /\ reqs[r].tries <= 1
        /\ reqs[r].lines \in {<<>>, <<Small>>, <<Huge>>}
PairNext ==
    \E r \in RequestIds :
        \/ HStart(r) /\ PairEnv'
        \/ HScrape(r) /\ PairEnv'
        \/ HRobust(r) /\ PairEnv'
        \/ HFolder(r) /\ PairEnv'
        \/ HSave(r) /\ PairEnv'
        \/ HSplit(r) /\ PairEnv'
        \/ HUpload(r) /\ PairEnv'
        \/ HRemovePart(r) /\ PairEnv'
        \/ HCleanup(r) /\ PairEnv'
PairSpec == PairSpecInit /\ [][PairNext]_vars

\* one call of extract_content_from_tags
ExtractSpecInit == CrawlIdle /\ SplitIdle /\ ExtractInit /\ HandlerIdle
ExtractNext == Extract
ExtractSpec == ExtractSpecInit /\ [][ExtractNext]_vars

\* C15: at any moment, for any page, at most 5 of the child branches it
\* dispatched are executing; the other siblings wait for a worker.
C15_AtMostFiveBranchesPerPage ==
    \A p \in CallIds : Running(p) <= 5

\* five branches of a page are executing and a sixth is waiting
C15_Witness ==
    \E p \in CallIds :
        /\ Running(p) = 5
        /\ \E k \in Range(calls[p].futures) : calls[k].pc = "queued"

\* the first n links of the page at url, in document order: every href
\* joined to the base of the page, before any filter
FirstLinks(url, n) ==
    LET hs == Hrefs(Sites[job.site][url])
    IN  {urljoin(BaseUrl(url), hs[i]) : i \in {j \in 1..Len(hs) : j <= n}}

\* C16: a call at depth d of a crawl started with link cap L has the link
\* cap floor(L / 2^d) and dispatches at most that many children, all of them
\* among the first floor(L / 2^d) links of its page in document order; with
\* a cap of 0 it dispatches none.
C16_ChildrenWithinHalvedCap ==
    \A c \in CallIds :
        LET cap == job.max_links \div (2 ^ calls[c].depth)
        IN  /\ calls[c].max_links = cap
            /\ Len(calls[c].futures) <= cap
            /\ \A i \in 1..Len(calls[c].futures) :
                  calls[calls[c].futures[i]].url \in FirstLinks(calls[c].url, cap)
            /\ cap = 0 => calls[c].futures = <<>>

\* a page below the seed whose cap is 1 and cuts its links: it dispatched
\* its first link only, and that child, whose cap is 0, has returned
C16_Witness ==
    \E c \in CallIds :
        /\ calls[c].depth = 1 /\ calls[c].max_links = 1
        /\ Len(Hrefs(Sites[job.site][calls[c].url])) > 1
        /\ Len(calls[c].futures) = 1
        /\ calls[calls[c].futures[1]].pc = "returned"
        /\ calls[calls[c].futures[1]].max_links = 0

\* C17: in every reachable state every URL whose fetch has started, in
\* flight or completed, is in visited: it was added before the GET was
\* issued; and no step of the crawl removes a URL from visited.
C17_FetchStartedImpliesVisited ==
    /\ [](\A c \in CallIds : Fetched(c) => calls[c].url \in visited)
    /\ [][visited \subseteq visited']_vars

\* one fetch is in flight while another has completed and a third failed
C17_Witness ==
    \E c, k, e \in CallIds :
        /\ calls[c].fetch = "inflight"
        /\ calls[k].fetch = "ok"
        /\ calls[e].fetch = "error"
        /\ {calls[c].url, calls[k].url, calls[e].url} \subseteq visited

\* C22: under fair scheduling, with every GET answered, every crawl ends:
\* every dispatched branch and the top-level call of scrape_website come
\* back to their caller, also on a site whose links form a cycle; no
\* branch waits for ever for a worker or for a child.
C22_CrawlTerminates ==
    <>[](\A c \in CallIds : Done(c))

\* a finished crawl of the site whose pages link back to each other: the
\* top-level call has returned and so has every branch
C22_Witness ==
    /\ job.site = 1
    /\ Len(calls) >= 4
    /\ calls[1].pc = "returned"
    /\ \A c \in CallIds : Done(c)

\* the URLs of the links that the pages at urls dispatch with link cap cap
LinksOf(urls, cap) ==
    UNION { {l \in FirstLinks(u, cap) : IsInfix(BaseUrl(u), l)} :
            u \in urls \cap DOMAIN Sites[job.site] }

RECURSIVE FetchedByLevels(_, _, _, _)
\* the URLs fetched when every page is reached first by its shortest path
\* from the seed: the pages of one depth are all marked before any page of
\* the next depth is checked
FetchedByLevels(level, seen, depth, cap) ==
    IF level = {} \/ depth > job.max_depth THEN seen
    ELSE FetchedByLevels(LinksOf(level, cap) \ (seen \cup level), seen \cup level,
                         depth + 1, cap \div 2)

\* the URLs for which a GET was issued
FetchedUrls == {calls[c].url : c \in {d \in CallIds : Fetched(d)}}

\* the crawl is over, every page of the site answered its GET and no wait
\* for the branches of a page ran into its timeout
CrawlOverAllAnswered ==
    /\ \A c \in CallIds : Done(c) /\ ~calls[c].timedout
    /\ \A c \in CallIds :
          calls[c].url \in DOMAIN Sites[job.site] => calls[c].fetch \in {"none", "ok"}

\* C23: for a fixed site, fixed answers (every page of the site answers, no
\* timeout) and a fixed job, the set of URLs fetched by a crawl is the same in every
\* interleaving: it is the set fetched in the interleaving in which every
\* page is reached first by its shortest path from the seed.
C23_FetchedSetOfEveryInterleaving ==
    CrawlOverAllAnswered => FetchedUrls = FetchedByLevels({job.seed}, {}, 0, job.max_links)

----------------------------------------------------------------------------
(* Properties of split_file_by_size                                        *)

RECURSIVE Flatten(_)
Flatten(parts) == IF parts = <<>> THEN <<>> ELSE parts[1] \o Flatten(Tail(parts))

\* C8: the lines of the parts, concatenated in part-number order, are the
\* lines of the input: same lines, same order, none dropped or duplicated.
C8_PartsConcatenateToInput ==
    splitPc = "done" => Flatten(splitOut) = splitIn.lines

\* an input that was split into several parts, one of them of several lines
C8_Witness ==
    /\ splitPc = "done"
    /\ Len(splitOut) >= 3
    /\ \E i \in 1..Len(splitOut) : Len(splitOut[i]) >= 2

\* C9: every part is at most max_bytes long, unless it is exactly one line
\* that is itself longer than max_bytes; such a line is alone in its part.
C9_PartsWithinCeiling ==
    splitPc = "done" =>
        \A i \in 1..Len(splitOut) :
            /\ \/ FileSize(splitOut[i]) <= splitIn.max_bytes
               \/ Len(splitOut[i]) = 1 /\ Utf8Len(splitOut[i][1]) > splitIn.max_bytes
            /\ \A j \in 1..Len(splitOut[i]) :
                  Utf8Len(splitOut[i][j]) > splitIn.max_bytes => Len(splitOut[i]) = 1

\* a part filled to the ceiling exactly by two lines, and an oversize line in
\* a part of its own
C9_Witness ==
    /\ splitPc = "done"
    /\ \E i \in 1..Len(splitOut) :
          Len(splitOut[i]) = 2 /\ FileSize(splitOut[i]) = splitIn.max_bytes
    /\ \E i \in 1..Len(splitOut) :
          Len(splitOut[i]) = 1 /\ FileSize(splitOut[i]) > splitIn.max_bytes

\* C24: split_file_by_size never emits an empty part: every part file
\* data1.txt, data2.txt, ... (the parts in the order of their numbers) holds
\* at least one line, for every file and every max_bytes, a file whose first
\* line alone exceeds max_bytes included.
C24_NoEmptyPart ==
    splitPc = "done" => \A i \in 1..Len(splitOut) : splitOut[i] # <<>>

\* a call that has split a file of 2,000,000 bytes at 900,000 bytes
SplitOfScenario ==
    /\ splitPc = "done"
    /\ splitIn.max_bytes = 900000
    /\ FileSize(splitIn.lines) = 2000000

\* exactly 3 parts, the third of the bytes the first two left
ThreeParts ==
    /\ Len(splitOut) = 3
    /\ FileSize(splitOut[3]) = 2000000 - FileSize(splitOut[1]) - FileSize(splitOut[2])

\* C18 as stated: a file whose lines total 2,000,000 bytes, split at
\* 900,000 bytes, gives exactly 3 parts and the size of the third is
\* 2,000,000 minus the sizes of the first two.
C18_ThreePartsAnyLines ==
    SplitOfScenario => ThreeParts

\* C18: a file whose lines total 2,000,000 bytes, none of them longer than
\* 350,000 bytes, split at 900,000 bytes, gives exactly 3 parts and the size
\* of the third is 2,000,000 minus the sizes of the first two.
C18_ThreePartsOfShortLines ==
    /\ SplitOfScenario
    /\ \A i \in 1..Len(splitIn.lines) : Utf8Len(splitIn.lines[i]) <= 350000
    => ThreeParts

\* such a file of lines of 200,000 and of 300,000 bytes, split in 3 parts
C18_Witness ==
    /\ SplitOfScenario
    /\ \A i \in 1..Len(splitIn.lines) : Utf8Len(splitIn.lines[i]) <= 350000
    /\ \E i, j \in 1..Len(splitIn.lines) :
          Utf8Len(splitIn.lines[i]) # Utf8Len(splitIn.lines[j])
    /\ Len(splitOut) = 3

----------------------------------------------------------------------------
(* Properties of the /scrape handler                                       *)

\* C10: when the handler has finished the relay loop, every part file was
\* deleted right after it was processed and the folder of the request, with
\* the original file, is removed, whatever the outcome of each part:
\* uploaded, upload failed, or refused as too large.
C10_StagingReleased ==
    \A r \in DOMAIN reqs :
        /\ reqs[r].pc = "relay"
              => \A i \in 1..reqs[r].idx :
                    Path(reqs[r].folder, reqs[r].part_files[i]) \notin DOMAIN files
        /\ reqs[r].pc = "done" /\ reqs[r].status = 200
              => /\ FilesIn(files, reqs[r].folder) = {}
                 /\ reqs[r].folder \notin dirs


\* the number of times x occurs in the sequence s
Count(s, x) == Cardinality({i \in 1..Len(s) : s[i] = x})

\* the parts that the lines of request r are staged as
StagedParts(r) ==
    split_file_by_size([i \in 1..Len(reqs[r].lines) |-> WithNewline(reqs[r].lines[i])],
                       MAX_FILE_SIZE)

\* C11: for every part file the relay loop has processed: when its size
\* exceeds MAX_FILE_SIZE no POST was issued for it and one failed outcome,
\* of status 400, is recorded for it; when its size is within MAX_FILE_SIZE
\* exactly one POST was issued for it.
C11_OversizeRefusedOthersPostedOnce ==
    \A r \in DOMAIN reqs :
        \A i \in 1..Len(reqs[r].upload_responses) :
            LET name == reqs[r].part_files[i]
            IN  IF FileSize(StagedParts(r)[i]) > MAX_FILE_SIZE
                THEN /\ Count(reqs[r].posts, name) = 0
                     /\ reqs[r].upload_responses[i] = [file |-> name, status |-> 400]
                     /\ Count([k \in 1..Len(reqs[r].upload_responses) |->
                                   reqs[r].upload_responses[k].file], name) = 1
                ELSE Count(reqs[r].posts, name) = 1

\* a finished request whose first part, of exactly MAX_FILE_SIZE bytes, was
\* posted and whose second part was refused
C11_Witness ==
    \E r \in DOMAIN reqs :
        /\ reqs[r].pc = "done"
        /\ Len(reqs[r].part_files) = 2
        /\ FileSize(StagedParts(r)[1]) = MAX_FILE_SIZE
        /\ reqs[r].posts = <<reqs[r].part_files[1]>>
        /\ reqs[r].upload_responses[2].status = 400


\* C12: a request whose crawl gave no lines (the GET failed, every parameter
\* set failed, or the page has no text) ends with the "no content" response
\* 204, not with an error: no folder is made, no file is staged, no part
\* exists and no POST is issued.
C12_NoLinesNoContent ==
    \A r \in DOMAIN reqs :
        reqs[r].pc = "done" /\ reqs[r].gets > 0 /\ reqs[r].lines = <<>>
            => /\ reqs[r].status = 204
               /\ reqs[r].folder = <<>> /\ dirs = {}
               /\ files = <<>> /\ reqs[r].part_files = <<>>
               /\ reqs[r].posts = <<>> /\ reqs[r].upload_responses = <<>>

\* a request answered 204 after the first GET and every parameter set failed
C12_Witness ==
    \E r \in DOMAIN reqs :
        /\ reqs[r].pc = "done" /\ reqs[r].status = 204
        /\ reqs[r].tries = Len(ParameterSets) /\ reqs[r].lines = <<>>


\* C13: a request without a url or without an orgId, or whose url has no
\* scheme or no host, never starts the crawl: no GET is sent, no folder or
\* file is staged and no POST is issued, and the request that reaches the
\* validation of lines 317-329 (the API key is configured) is answered with
\* the validation error 400.
C13_InvalidRequestRejected ==
    \A r \in DOMAIN reqs :
        LET data == reqs[r].data
            invalid == \/ data.url = NoValue
                       \/ data.orgId = NoValue
                       \/ UrlScheme(data.url) = <<>>
                       \/ UrlNetloc(data.url) = <<>>
        IN  invalid
            => /\ reqs[r].pc \in {"start", "done"}
               /\ reqs[r].gets = 0 /\ reqs[r].tries = 0
               /\ reqs[r].folder = <<>> /\ dirs = {} /\ files = <<>>
               /\ reqs[r].posts = <<>>
               /\ reqs[r].pc = "done" /\ apiKey => reqs[r].status = 400

\* a request with an orgId and a url of a scheme but no host, answered 400
C13_Witness ==
    \E r \in DOMAIN reqs :
        /\ reqs[r].pc = "done" /\ reqs[r].status = 400
        /\ reqs[r].data.orgId # NoValue
        /\ UrlScheme(reqs[r].data.url) # <<>> /\ UrlNetloc(reqs[r].data.url) = <<>>


----------------------------------------------------------------------------
(* Properties of extract_content_from_tags                                 *)

\* the normalized text of every kind of element, and whether its length is
\* strictly between 30 and 1000 and it contains no denylisted term
Normalized == [e \in ElementKinds |-> clean_text(e.text)]
Qualifies ==
    [e \in ElementKinds |->
        /\ e.tag \in TARGET_TAGS
        /\ Len(Normalized[e]) > 30
        /\ Len(Normalized[e]) < 1000
        /\ \A bad \in Denylist : ~IsInfix(bad, Lower(Normalized[e]))]
Folded == [e \in ElementKinds |-> Lower(Normalized[e])]

\* the positions of the document whose text is the first occurrence, by
\* case-folded text, of a qualifying text
FirstOccurrences(doc) ==
    {i \in 1..Len(doc) :
        /\ Qualifies[doc[i]]
        /\ \A j \in 1..(i - 1) : Qualifies[doc[j]] => Folded[doc[j]] # Folded[doc[i]]}

\* C14: extract_content_from_tags returns exactly, in document order, the
\* first occurrence (by case-folded text) of each normalized element text
\* that is longer than 30 and shorter than 1000 characters and contains no
\* denylisted term case-insensitively: a text of exactly 30 or exactly 1000
\* characters is rejected, texts equal after case folding give one fragment.
C14_ExtractorFragments ==
    extractPc = "done" =>
        LET keep == FirstOccurrences(extractIn)
            \* the k-th position kept, in document order
            pos(k) == CHOOSE i \in keep : Cardinality({j \in keep : j <= i}) = k
        IN  /\ Len(extractOut) = Cardinality(keep)
            /\ \A k \in 1..Len(extractOut) : extractOut[k] = Normalized[extractIn[pos(k)]]

\* a document of a text of 31 characters, one of 999, and a text that is
\* equal to an earlier one after case folding
C14_Witness ==
    /\ extractPc = "done"
    /\ \E i, j \in 1..Len(extractIn) :
          /\ i < j
          /\ Qualifies[extractIn[i]]
          /\ extractIn[i] # extractIn[j]
          /\ Folded[extractIn[i]] = Folded[extractIn[j]]
    /\ \E i \in 1..Len(extractIn) : Len(Normalized[extractIn[i]]) \in {31, 999}
    /\ Len(extractOut) = 2


\* C19: the relay records exactly one outcome per part file, in the order of
\* the part files: a failed POST or a non-success status is recorded for its
\* part only and the parts after it are still processed, and the request
\* ends with the completion response, the number of successful uploads
\* being at most the number of part files.
C19_OneOutcomePerPart ==
    \A r \in DOMAIN reqs :
        LET parts == reqs[r].part_files
            outcomes == reqs[r].upload_responses
        IN  /\ Len(outcomes) <= Len(parts)
            /\ \A i \in 1..Len(outcomes) : outcomes[i].file = parts[i]
            /\ reqs[r].pc = "relay" => Len(outcomes) = reqs[r].idx
            /\ reqs[r].pc = "done" /\ reqs[r].lines # <<>>
                  => /\ reqs[r].status = 200
                     /\ Len(outcomes) = Len(parts)
                     /\ Len(SuccessfulUploads(outcomes)) <= Len(parts)

\* a finished request of two parts: the POST of the first failed, the
\* second was uploaded
C19_Witness ==
    \E r \in DOMAIN reqs :
        /\ reqs[r].pc = "done" /\ reqs[r].status = 200
        /\ Len(reqs[r].part_files) = 2
        /\ reqs[r].upload_responses[1].status = 500
        /\ reqs[r].upload_responses[2].status = 200
        /\ Len(SuccessfulUploads(reqs[r].upload_responses)) = 1


\* C20: scrape_website of app.py calls scrape_website_robust whenever its
\* initial request fails, by a status other than 200 or by an exception of
\* the request; scrape_website_robust tries its parameter sets one after
\* the other and stops at the first answer 200.
C20_FallbackOnEveryFailure ==
    \A r \in DOMAIN reqs :
        LET a == reqs[r].answers
        IN  /\ a # <<>> /\ a[1] # "200"
                => reqs[r].pc = "robust" \/ reqs[r].tries >= 1
            /\ reqs[r].tries <= Len(ParameterSets)
            /\ a # <<>> => reqs[r].tries = Len(a) - 1
            /\ \A i \in 1..(Len(a) - 1) : a[i] # "200"
            /\ reqs[r].tries >= 1 /\ reqs[r].pc # "robust"
                => a[Len(a)] = "200" \/ reqs[r].tries = Len(ParameterSets)


\* the positions at which a request has files staged
Staging == {"save", "split", "relay", "remove"}

\* C21: two requests handled at the same time, also two of the same linkId,
\* never stage their files in the same folder, and the file a request has
\* saved holds its own lines until the request has split it.
C21_FoldersNotShared ==
    /\ \A r, q \in DOMAIN reqs :
          r # q /\ reqs[r].pc \in Staging /\ reqs[q].pc \in Staging
              => reqs[r].folder # reqs[q].folder
    /\ \A r \in DOMAIN reqs :
          reqs[r].pc = "split"
              => LET p == Path(reqs[r].folder, reqs[r].original)
                 IN  /\ p \in DOMAIN files
                     /\ files[p] = [i \in 1..Len(reqs[r].lines) |->
                                       WithNewline(reqs[r].lines[i])]

=============================================================================
